---- MODULE Spec2Model ----
(***************************************************************************)
(* jaraco.xkcd: a caching client for the xkcd JSON API.                    *)
(*                                                                         *)
(* Two modules of the repository are modelled: the package                 *)
(* src/jaraco/xkcd/__init__.py ("package") and the older single-file       *)
(* module src/jaraco/xkcd.py ("legacy").  The cachecontrol session, the    *)
(* remote archive and the clock are the environment.                       *)
(*                                                                         *)
(* Strings are sequences of one-character strings, so that str(), int(),   *)
(* '|'.join, lower() and the substring test are computed, not assumed.     *)
(***************************************************************************)
EXTENDS Integers, Sequences, FiniteSets, TLC

VARIABLES
    impl,       \* which module of the repository runs: "package" or "legacy"
    remote,     \* the number of the newest comic the server has
    tmpl,       \* the archive: which record shape each comic number has
    cache,      \* the request URLs with a fresh entry in the session's cache
    it,         \* the map object returned by all() / older(), if any
    last,       \* what the most recent call or environment event did
    environ,    \* the value of XKCD_CACHE_DIR, or Unset
    cacheDir    \* the directory of the FileCache most recently made

vars == <<impl, remote, tmpl, cache, it, last, environ, cacheDir>>

(***************************************************************************)
(* Bounds of the model.                                                    *)
(***************************************************************************)
MaxLatest == 3     \* newest comic number in the small archives
MaxBatch == 2      \* longest list of numbers loaded in one batch

(***************************************************************************)
(* Constants of the program.                                               *)
(***************************************************************************)
NotFound == 404        \* the comic that is not found
OlderWindow == 100     \* the offset of older()

(***************************************************************************)
(* Characters and strings.                                                 *)
(***************************************************************************)
DigitChars == <<"0", "1", "2", "3", "4", "5", "6", "7", "8", "9">>

UpperChars == <<"A", "B", "C", "D", "E", "F", "G", "H", "I", "J", "K", "L", "M",
                "N", "O", "P", "Q", "R", "S", "T", "U", "V", "W", "X", "Y", "Z">>

LowerChars == <<"a", "b", "c", "d", "e", "f", "g", "h", "i", "j", "k", "l", "m",
                "n", "o", "p", "q", "r", "s", "t", "u", "v", "w", "x", "y", "z">>

IndexOf(c, alphabet) ==
    IF \E i \in 1..Len(alphabet) : alphabet[i] = c
    THEN CHOOSE i \in 1..Len(alphabet) : alphabet[i] = c
    ELSE 0

Range(q) == {q[i] : i \in 1..Len(q)}

\* the lower-case letter of each upper-case letter
LowerOf == [c \in Range(UpperChars) |-> LowerChars[IndexOf(c, UpperChars)]]

\* the value of each decimal digit
DigitOf == [c \in Range(DigitChars) |-> IndexOf(c, DigitChars) - 1]

\* str.lower() on one character
LowerChar(c) == IF c \in DOMAIN LowerOf THEN LowerOf[c] ELSE c

RECURSIVE Lower(_)
\* str.lower()
Lower(s) == IF s = <<>> THEN <<>> ELSE <<LowerChar(Head(s))>> \o Lower(Tail(s))

\* the Python test  needle in haystack  on plain strings
Contains(haystack, needle) ==
    \E i \in 0..(Len(haystack) - Len(needle)) :
        \A j \in 1..Len(needle) : haystack[i + j] = needle[j]

\* a plain str in place of the FoldedCase: the test is case-sensitive
PlainContains(folded, other) == Contains(folded, other)

\* jaraco.text.FoldedCase.__contains__: both sides lowered
FoldedContains(folded, other) == Contains(Lower(folded), Lower(other))

RECURSIVE Digits(_)
\* the decimal digits of a natural number
Digits(n) ==
    IF n < 10 THEN <<DigitChars[n + 1]>>
    ELSE Digits(n \div 10) \o <<DigitChars[(n % 10) + 1]>>

\* str(int)
StrInt(i) == IF i < 0 THEN <<"-">> \o Digits(0 - i) ELSE Digits(i)

RECURSIVE ZeroPad(_, _)
\* a string left-padded with zeros to a width, as %04d and %02d do
ZeroPad(s, width) == IF Len(s) >= width THEN s ELSE ZeroPad(<<"0">> \o s, width)

RECURSIVE Strip(_)
\* str.strip() for the blank
Strip(s) ==
    IF s = <<>> THEN s
    ELSE IF Head(s) = " " THEN Strip(Tail(s))
    ELSE IF s[Len(s)] = " " THEN Strip(SubSeq(s, 1, Len(s) - 1))
    ELSE s

IsDigits(s) == Len(s) > 0 /\ \A i \in 1..Len(s) : s[i] \in DOMAIN DigitOf

RECURSIVE DigitsValue(_)
DigitsValue(s) ==
    IF s = <<>> THEN 0
    ELSE 10 * DigitsValue(SubSeq(s, 1, Len(s) - 1)) + DigitOf[s[Len(s)]]

\* whether int(s) succeeds on a string: blanks stripped, an optional sign, digits
IsIntLiteral(s) ==
    LET t == Strip(s) IN
    IF t # <<>> /\ Head(t) \in {"+", "-"} THEN IsDigits(Tail(t)) ELSE IsDigits(t)

\* int(s) where it succeeds
IntLiteral(s) ==
    LET t == Strip(s) IN
    IF Head(t) = "-" THEN 0 - DigitsValue(Tail(t))
    ELSE IF Head(t) = "+" THEN DigitsValue(Tail(t))
    ELSE DigitsValue(t)

(***************************************************************************)
(* JSON values and mappings.  A value is an int, a str or None; a mapping  *)
(* (a dict, or vars(self)) is the sequence of its items in insertion order.*)
(***************************************************************************)
IntV(i) == [t |-> "int", i |-> i, s |-> <<>>]
StrV(s) == [t |-> "str", i |-> 0, s |-> s]
NoneV == [t |-> "none", i |-> 0, s |-> <<>>]

Item(k, v) == [k |-> k, v |-> v]

HasKey(ob, k) == \E i \in 1..Len(ob) : ob[i].k = k

Get(ob, k) == ob[CHOOSE i \in 1..Len(ob) : ob[i].k = k].v

\* str(value)
Str(v) ==
    IF v.t = "int" THEN StrInt(v.i)
    ELSE IF v.t = "str" THEN v.s
    ELSE <<"N", "o", "n", "e">>

\* safe_int = except_(TypeError, ValueError, use='args[0]')(int)
safe_int(v) ==
    IF v.t = "int" THEN v
    ELSE IF v.t = "str" /\ IsIntLiteral(v.s) THEN IntV(IntLiteral(v.s))
    ELSE v

RECURSIVE fix_numbers(_)
\* Comic._fix_numbers: dict_map(safe_int, ob)
fix_numbers(ob) ==
    IF ob = <<>> THEN <<>>
    ELSE <<Item(Head(ob).k, safe_int(Head(ob).v))>> \o fix_numbers(Tail(ob))

RECURSIVE StrValues(_)
\* map(str, ob.values())
StrValues(ob) == IF ob = <<>> THEN <<>> ELSE <<Str(Head(ob).v)>> \o StrValues(Tail(ob))

RECURSIVE Join(_, _)
\* sep.join(strings)
Join(sep, strings) ==
    IF strings = <<>> THEN <<>>
    ELSE IF Len(strings) = 1 THEN strings[1]
    ELSE strings[1] \o sep \o Join(sep, Tail(strings))

(***************************************************************************)
(* A Comic is its instance dictionary.  The accessors return a record      *)
(* whose err is "" on success and the name of the exception otherwise.     *)
(***************************************************************************)
\* the instance dictionary Comic._404 builds
SentinelVars ==
    << Item("num", IntV(404)),
       Item("title", StrV(<<"N", "o", "t", " ", "F", "o", "u", "n", "d">>)),
       Item("img", NoneV),
       Item("year", IntV(2008)),
       Item("month", IntV(4)),
       Item("day", IntV(1)) >>

\* Comic.number
number(cvars) ==
    IF HasKey(cvars, "num") THEN [err |-> "", v |-> Get(cvars, "num")]
    ELSE [err |-> "AttributeError", v |-> NoneV]

IsLeap(y) == (y % 4 = 0 /\ y % 100 # 0) \/ y % 400 = 0

DaysInMonth(y, m) ==
    IF m = 2 THEN (IF IsLeap(y) THEN 29 ELSE 28)
    ELSE IF m \in {4, 6, 9, 11} THEN 30
    ELSE 31

\* Comic.date: datetime.date(self.year, self.month, self.day)
date(cvars) ==
    IF ~(HasKey(cvars, "year") /\ HasKey(cvars, "month") /\ HasKey(cvars, "day"))
    THEN [err |-> "AttributeError", y |-> 0, m |-> 0, d |-> 0]
    ELSE LET y == Get(cvars, "year")
             m == Get(cvars, "month")
             d == Get(cvars, "day")
         IN  IF ~(y.t = "int" /\ m.t = "int" /\ d.t = "int")
             THEN [err |-> "TypeError", y |-> 0, m |-> 0, d |-> 0]
             ELSE IF ~(/\ y.i \in 1..9999
                       /\ m.i \in 1..12
                       /\ d.i \in 1..DaysInMonth(y.i, m.i))
             THEN [err |-> "ValueError", y |-> 0, m |-> 0, d |-> 0]
             ELSE [err |-> "", y |-> y.i, m |-> m.i, d |-> d.i]

\* str(datetime.date): YYYY-MM-DD
StrDate(dt) ==
    ZeroPad(Digits(dt.y), 4) \o <<"-">> \o ZeroPad(Digits(dt.m), 2)
        \o <<"-">> \o ZeroPad(Digits(dt.d), 2)

\* Comic.full_text of the package: the values of vars(self), then the date
full_text(cvars) ==
    LET dt == date(cvars) IN
    IF dt.err # "" THEN [err |-> dt.err, s |-> <<>>]
    ELSE [err |-> "",
          s |-> Join(<<"|">>, StrValues(cvars) \o <<StrDate(dt)>>)]

\* Comic.full_text of the legacy module: the values of vars(self) only
legacy_full_text(cvars) ==
    [err |-> "", s |-> Join(<<"|">>, StrValues(cvars))]

(***************************************************************************)
(* The remote archive.  Comic n has one of the record shapes of Pool, as   *)
(* tmpl says (numbers past the end of tmpl repeat it); the server answers  *)
(* 200 for the comics 1..remote other than 404 and 404 for the rest.       *)
(***************************************************************************)
\* month, year and day arrive as numeric strings, num as an int
Pool ==
    << \* a well-formed record:          1|n|2006|i|Ab|1|2006-01-01
       << Item("month", StrV(<<"1">>)), Item("year", StrV(<<"2", "0", "0", "6">>)),
          Item("img", StrV(<<"i">>)), Item("title", StrV(<<"A", "b">>)),
          Item("day", StrV(<<"1">>)) >>,
       \* a well-formed record whose title is numeric:  12|n|2020|j|7|25|2020-12-25
       << Item("month", StrV(<<"1", "2">>)), Item("year", StrV(<<"2", "0", "2", "0">>)),
          Item("img", StrV(<<"j">>)), Item("title", StrV(<<"0", "7">>)),
          Item("day", StrV(<<"2", "5">>)) >>,
       \* a record without the key day
       << Item("month", StrV(<<"1">>)), Item("year", StrV(<<"2", "0", "0", "6">>)),
          Item("img", StrV(<<"i">>)), Item("title", StrV(<<"A", "b">>)) >> >>

\* the JSON object the server holds for comic n
RemoteJson(n) ==
    LET shape == Pool[tmpl[((n - 1) % Len(tmpl)) + 1]]
    IN  <<shape[1], Item("num", IntV(n))>> \o Tail(shape)

\* 0 stands for the URL info.0.json, n >= 1 for n/info.0.json
LatestUrl == 0

\* the status of the server's answer to GET url
RemoteStatus(url) ==
    IF url = LatestUrl THEN 200
    ELSE IF url \in 1..remote /\ url # 404 THEN 200
    ELSE 404

\* the comic whose JSON the server's answer to GET url carries
RemoteBody(url) == IF url = LatestUrl THEN remote ELSE url

(***************************************************************************)
(* The session: cachecontrol.CacheControl with the ExpiresAfter heuristic. *)
(* A cache entry is [url, num]: the URL and the comic whose JSON it holds. *)
(* A stored 200 answer is fresh for 20 years; an entry past that horizon   *)
(* is not used, which the model renders as the entry being gone (Expire).  *)
(***************************************************************************)
Cached(c, url) == \E e \in c : e.url = url

Entry(c, url) == CHOOSE e \in c : e.url = url

\* a session whose cache keeps nothing
StoreNothing(c, url, status, num) == c

\* the controller stores an answer only when its status is 200
Store(c, url, status, num) ==
    IF status = 200 THEN {e \in c : e.url # url} \cup {[url |-> url, num |-> num]} ELSE c

\* session.get(url, headers): noCache says the request carries Cache-Control: no-cache
SessionGet(url, noCache, c) ==
    IF ~noCache /\ Cached(c, url)
    THEN [status |-> 200, num |-> Entry(c, url).num, cache |-> c, net |-> FALSE]
    ELSE [status |-> RemoteStatus(url), num |-> RemoteBody(url),
          cache |-> Store(c, url, RemoteStatus(url), RemoteBody(url)), net |-> TRUE]

(***************************************************************************)
(* The trace of one call: the cache as it stands, the session.get calls    *)
(* issued (reqs), those that reached the network (net), and the numbers    *)
(* Comic.__init__ ran for (built), each in order.                          *)
(***************************************************************************)
Start(c) == [cache |-> c, reqs |-> <<>>, net |-> <<>>, built |-> <<>>]

Request(tr, url, noCache) ==
    LET g == SessionGet(url, noCache, tr.cache)
    IN  [status |-> g.status, num |-> g.num,
         tr |-> [tr EXCEPT !.cache = g.cache,
                           !.reqs = Append(@, url),
                           !.net = IF g.net THEN Append(@, url) ELSE @]]

Raised(e, tr) == [err |-> e, cvars |-> <<>>, tr |-> tr]

Returned(cvars, tr) == [err |-> "", cvars |-> cvars, tr |-> tr]

RequiredKeys == {"num", "title", "year", "month", "day"}

\* a _load that checks the record before it returns
Comic_load_checked(n, tr) ==
    LET r == Request(tr, n, FALSE)
    IN  IF r.status # 200 THEN Raised("HTTPError", r.tr)
        ELSE IF \E k \in RequiredKeys : ~HasKey(RemoteJson(r.num), k)
        THEN Raised("MalformedRecord", r.tr)
        ELSE Returned(fix_numbers(RemoteJson(r.num)), r.tr)

\* Comic._load of the package
Comic_load(n, tr) ==
    LET r == Request(tr, n, FALSE)
    IN  IF r.status # 200 THEN Raised("HTTPError", r.tr)
        ELSE Returned(fix_numbers(RemoteJson(r.num)), r.tr)

\* Comic.__init__ of the package: the sentinel, or _load
Comic_init(n, tr) ==
    LET t == [tr EXCEPT !.built = Append(@, n)]
    IN  IF n = 404 THEN Returned(SentinelVars, t) ELSE Comic_load(n, t)

\* Comic.__init__ of the legacy module: the request comes first
legacy_Comic_init(n, tr) ==
    LET r == Request([tr EXCEPT !.built = Append(@, n)], n, FALSE)
    IN  IF n = 404 THEN Returned(<<>>, r.tr)
        ELSE IF r.status # 200 THEN Raised("HTTPError", r.tr)
        ELSE Returned(fix_numbers(RemoteJson(r.num)), r.tr)

Comic(im, n, tr) ==
    IF im = "package" THEN Comic_init(n, tr) ELSE legacy_Comic_init(n, tr)

\* latest() without the Cache-Control: no-cache header
latest_from_cache(im, tr) ==
    LET r == Request(tr, LatestUrl, FALSE)
    IN  IF r.status # 200 THEN Raised("HTTPError", r.tr)
        ELSE Comic(im, Get(RemoteJson(r.num), "num").i, r.tr)

\* Comic.latest (the same in both modules)
latest(im, tr) ==
    LET r == Request(tr, LatestUrl, TRUE)
    IN  IF r.status # 200 THEN Raised("HTTPError", r.tr)
        ELSE Comic(im, Get(RemoteJson(r.num), "num").i, r.tr)

\* list(range(hi, hi - len, -1))
RECURSIVE DownFrom(_, _)
DownFrom(hi, len) == IF len = 0 THEN <<>> ELSE <<hi>> \o DownFrom(hi - 1, len - 1)

RECURSIVE LoadList(_, _, _)
\* list(map(Comic, ns)): stops at the first exception
LoadList(im, ns, tr) ==
    IF ns = <<>> THEN Returned(<<>>, tr)
    ELSE LET c == Comic(im, Head(ns), tr)
         IN  IF c.err # "" THEN c ELSE LoadList(im, Tail(ns), c.tr)

\* make_cache: the directory the FileCache is made on
\* all() returning list(map(cls, range(...))): every element built at the call
all_eager(im, tr) ==
    LET l == latest(im, tr)
        first == number(l.cvars).v.i
        built == LoadList(im, DownFrom(first, first), l.tr)
    IN  IF l.err # "" THEN [err |-> l.err, first |-> 0, tr |-> l.tr]
        ELSE IF number(l.cvars).err # "" THEN [err |-> number(l.cvars).err, first |-> 0, tr |-> l.tr]
        ELSE [err |-> built.err, first |-> first, tr |-> built.tr]

\* the first number of the range all() maps over: latest.number
all(im, tr) ==
    LET l == latest(im, tr)
    IN  IF l.err # "" THEN [err |-> l.err, first |-> 0, tr |-> l.tr]
        ELSE IF number(l.cvars).err # "" THEN [err |-> number(l.cvars).err, first |-> 0, tr |-> l.tr]
        ELSE [err |-> "", first |-> number(l.cvars).v.i, tr |-> l.tr]

\* older() without its offset
older_no_offset(im, tr) ==
    LET l == latest(im, tr)
    IN  IF l.err # "" THEN [err |-> l.err, first |-> 0, tr |-> l.tr]
        ELSE IF number(l.cvars).err # "" THEN [err |-> number(l.cvars).err, first |-> 0, tr |-> l.tr]
        ELSE [err |-> "", first |-> number(l.cvars).v.i, tr |-> l.tr]

\* the first number of the range older() maps over (legacy module only)
older(im, tr) ==
    LET l == latest(im, tr)
    IN  IF l.err # "" THEN [err |-> l.err, first |-> 0, tr |-> l.tr]
        ELSE IF number(l.cvars).err # "" THEN [err |-> number(l.cvars).err, first |-> 0, tr |-> l.tr]
        ELSE [err |-> "", first |-> number(l.cvars).v.i - OlderWindow, tr |-> l.tr]

FullText(im, cvars) == IF im = "package" THEN full_text(cvars) ELSE legacy_full_text(cvars)

RECURSIVE NextMatch(_, _, _, _)
\* next(matches, None) over map(cls, range(k, 0, -1)): the first comic, from k
\* down, whose full_text holds text; found is FALSE for None
NextMatch(im, k, text, tr) ==
    IF k < 1 THEN [err |-> "", found |-> FALSE, cvars |-> <<>>, tr |-> tr]
    ELSE LET c == Comic(im, k, tr)
             ft == FullText(im, c.cvars)
         IN  IF c.err # "" THEN [err |-> c.err, found |-> FALSE, cvars |-> <<>>, tr |-> c.tr]
             ELSE IF ft.err # "" THEN [err |-> ft.err, found |-> FALSE, cvars |-> <<>>, tr |-> c.tr]
             ELSE IF FoldedContains(ft.s, text) THEN [err |-> "", found |-> TRUE, cvars |-> c.cvars, tr |-> c.tr]
             ELSE NextMatch(im, k - 1, text, c.tr)

\* search over list(cls.all()): every comic built before the first test
search_eager(im, text, tr) ==
    LET a == all(im, tr)
        built == LoadList(im, DownFrom(a.first, a.first), a.tr)
    IN  IF a.err # "" THEN [err |-> a.err, found |-> FALSE, cvars |-> <<>>, tr |-> a.tr]
        ELSE IF built.err # "" THEN [err |-> built.err, found |-> FALSE, cvars |-> <<>>, tr |-> built.tr]
        ELSE NextMatch(im, a.first, text, built.tr)

\* Comic.search
search(im, text, tr) ==
    LET a == all(im, tr)
    IN  IF a.err # "" THEN [err |-> a.err, found |-> FALSE, cvars |-> <<>>, tr |-> a.tr]
        ELSE NextMatch(im, a.first, text, a.tr)

\* os.environ.get('XKCD_CACHE_DIR', path or default)
Unset == "<unset>"
NoPath == "<None>"
DefaultDir == "~/.cache/xkcd"
make_cache(path, env) ==
    IF env # Unset THEN env
    ELSE IF path \notin {NoPath, ""} THEN path
    ELSE DefaultDir

(***************************************************************************)
(* The state machine.  Every call is one step: the program is synchronous  *)
(* and single-threaded, and the only thing a caller holds between calls is *)
(* the map object of all() / older(), which it pulls one element at a time.*)
(* last records the call just made: its arguments, what it returned or     *)
(* raised, and its trace; seen is the server's newest number at the call   *)
(* warm the requested URLs that had a fresh entry when it began, and held  *)
(* the comic number in the entry for info.0.json then (0 without one).     *)
(***************************************************************************)
NoIt == [kind |-> "none", first |-> 0, next |-> 0, count |-> 0, seen |-> 0]

Idle ==
    [op |-> "idle", n |-> 0, text |-> <<>>, ns |-> <<>>, path |-> "", seen |-> 0,
     err |-> "", found |-> FALSE, cvars |-> <<>>,
     reqs |-> <<>>, net |-> <<>>, warm |-> {}, held |-> 0, built |-> <<>>]

\* the record of a call that ran with trace tr from the cache c
Called(op, err, cvars, tr, c) ==
    [Idle EXCEPT !.op = op, !.seen = remote, !.err = err, !.cvars = cvars,
                 !.reqs = tr.reqs, !.net = tr.net, !.built = tr.built,
                 !.warm = {u \in Range(tr.reqs) : Cached(c, u)},
                 !.held = IF Cached(c, LatestUrl) THEN Entry(c, LatestUrl).num ELSE 0]

\* In the large archives the caller finishes one map object before asking for
\* the next; in the small ones it may drop one at any point.
CallerMayIterate == remote <= MaxLatest \/ it.kind = "none" \/ it.next < 1

\* Comic(n)
Construct(n) ==
    \E c \in {Comic(impl, n, Start(cache))} :
        /\ cache' = c.tr.cache
        /\ last' = [Called("Comic", c.err, c.cvars, c.tr, cache) EXCEPT !.n = n]
        /\ UNCHANGED <<impl, remote, tmpl, it, environ, cacheDir>>

\* Comic.latest()
Latest ==
    \E l \in {latest(impl, Start(cache))} :
        /\ cache' = l.tr.cache
        /\ last' = Called("latest", l.err, l.cvars, l.tr, cache)
        /\ UNCHANGED <<impl, remote, tmpl, it, environ, cacheDir>>

\* Comic.all(): returns the map object, or raises
All ==
    /\ CallerMayIterate
    /\ \E a \in {all(impl, Start(cache))} :
        /\ cache' = a.tr.cache
        /\ last' = [Called("all", a.err, <<>>, a.tr, cache) EXCEPT !.n = a.first]
        /\ it' = IF a.err # "" THEN it
                 ELSE [kind |-> "all", first |-> a.first, next |-> a.first,
                       count |-> 0, seen |-> remote]
        /\ UNCHANGED <<impl, remote, tmpl, environ, cacheDir>>

\* Comic.older() of the legacy module
Older ==
    /\ impl = "legacy"
    /\ CallerMayIterate
    /\ \E a \in {older(impl, Start(cache))} :
        /\ cache' = a.tr.cache
        /\ last' = [Called("older", a.err, <<>>, a.tr, cache) EXCEPT !.n = a.first]
        /\ it' = IF a.err # "" THEN it
                 ELSE [kind |-> "older", first |-> a.first, next |-> a.first,
                       count |-> 0, seen |-> remote]
        /\ UNCHANGED <<impl, remote, tmpl, environ, cacheDir>>

\* next() on the map object: range(first, 0, -1) gives the number, cls builds it
Pull ==
    /\ it.kind # "none"
    /\ it.next >= 1
    /\ \E c \in {Comic(impl, it.next, Start(cache))} :
        /\ cache' = c.tr.cache
        /\ last' = [Called("pull", c.err, c.cvars, c.tr, cache) EXCEPT !.n = it.next]
        /\ it' = [it EXCEPT !.next = @ - 1,
                            !.count = IF c.err = "" THEN @ + 1 ELSE @]
        /\ UNCHANGED <<impl, remote, tmpl, environ, cacheDir>>

\* Comic.search(text)
Search(text) ==
    \E r \in {search(impl, text, Start(cache))} :
        /\ cache' = r.tr.cache
        /\ last' = [Called("search", r.err, r.cvars, r.tr, cache)
                        EXCEPT !.text = text, !.found = r.found]
        /\ UNCHANGED <<impl, remote, tmpl, it, environ, cacheDir>>

\* Comic.random(): random.randint(1, latest.number) is any number in that range
Random ==
    \E l \in {latest(impl, Start(cache))} :
        IF l.err # "" \/ number(l.cvars).err # ""
        THEN /\ cache' = l.tr.cache
             /\ last' = Called("random",
                               IF l.err # "" THEN l.err ELSE number(l.cvars).err,
                               <<>>, l.tr, cache)
             /\ UNCHANGED <<impl, remote, tmpl, it, environ, cacheDir>>
        ELSE \E k \in 1..number(l.cvars).v.i :
                \E c \in {Comic(impl, k, l.tr)} :
                    /\ cache' = c.tr.cache
                    /\ last' = [Called("random", c.err, c.cvars, c.tr, cache) EXCEPT !.n = k]
                    /\ UNCHANGED <<impl, remote, tmpl, it, environ, cacheDir>>

\* list(map(xkcd.Comic, ns)), one load of test_requests_cached
LoadBatch(ns) ==
    \E b \in {LoadList(impl, ns, Start(cache))} :
        /\ cache' = b.tr.cache
        /\ last' = [Called("batch", b.err, <<>>, b.tr, cache) EXCEPT !.ns = ns]
        /\ UNCHANGED <<impl, remote, tmpl, it, environ, cacheDir>>

\* the fixture fresh_cache: the session's cache becomes make_cache(tmpdir / 'xkcd'),
\* an empty store when that is the new temporary directory
TmpDir == "/tmp/pytest/xkcd"
FreshCache ==
    /\ make_cache(TmpDir, environ) = TmpDir
    /\ cacheDir' = TmpDir
    /\ cache' = {}
    /\ last' = [Idle EXCEPT !.op = "fresh_cache", !.path = TmpDir]
    /\ UNCHANGED <<impl, remote, tmpl, it, environ>>

\* time passes: an entry reaches the end of its 20 years
Expire(entry) ==
    /\ entry \in cache
    /\ cache' = cache \ {entry}
    /\ last' = [Idle EXCEPT !.op = "expire"]
    /\ UNCHANGED <<impl, remote, tmpl, it, environ, cacheDir>>

\* the server publishes the next comic
Publish ==
    /\ remote < MaxLatest
    /\ remote' = remote + 1
    /\ last' = [Idle EXCEPT !.op = "publish"]
    /\ UNCHANGED <<impl, tmpl, cache, it, environ, cacheDir>>

\* comic.date on the Comic the last call returned
ReadDate ==
    /\ last.op \in {"Comic", "date", "full_text"}
    /\ last.op = "Comic" => last.err = ""
    /\ last' = [Idle EXCEPT !.op = "date", !.n = last.n, !.seen = last.seen,
                            !.cvars = last.cvars, !.err = date(last.cvars).err]
    /\ UNCHANGED <<impl, remote, tmpl, cache, it, environ, cacheDir>>

\* comic.full_text on the Comic the last call returned
ReadFullText ==
    /\ last.op \in {"Comic", "date", "full_text"}
    /\ last.op = "Comic" => last.err = ""
    /\ last' = [Idle EXCEPT !.op = "full_text", !.n = last.n, !.seen = last.seen,
                            !.cvars = last.cvars, !.err = FullText(impl, last.cvars).err,
                            !.text = FullText(impl, last.cvars).s]
    /\ UNCHANGED <<impl, remote, tmpl, cache, it, environ, cacheDir>>

\* make_cache(path)
MakeCache(path) ==
    /\ cacheDir' = make_cache(path, environ)
    /\ last' = [Idle EXCEPT !.op = "make_cache", !.path = path]
    /\ UNCHANGED <<impl, remote, tmpl, cache, it, environ>>

\* the environment variable XKCD_CACHE_DIR is set, or removed
SetEnv(value) ==
    /\ environ' = value
    /\ environ' # environ
    /\ last' = [Idle EXCEPT !.op = "setenv", !.path = value]
    /\ UNCHANGED <<impl, remote, tmpl, cache, it, cacheDir>>

(***************************************************************************)
(* The inputs.                                                             *)
(***************************************************************************)
ComicArgs == (1..MaxLatest) \cup {NotFound}

\* the lists test_requests_cached loads: a run of numbers, newest first
Batches == {DownFrom(hi, len) : hi \in 1..MaxLatest, len \in 1..MaxBatch}

Texts ==
    { <<>>, <<"a", "B">>, <<"b">>, <<"I", "|", "A">>, <<"2", "0", "0", "6", "-", "0", "1">>,
      <<"0", "7">>, <<"7", "|", "2", "5">>, <<"1", "2", "|">>, <<"z">> }

Dirs == {"/a", "/b", "/c", "/d"}

WellFormedArchive == [i \in 1..MaxLatest |-> 1]

(***************************************************************************)
(* Spec: the package, on a small archive of well-formed records.           *)
(***************************************************************************)
Init ==
    /\ impl = "package"
    /\ remote \in 1..MaxLatest
    /\ tmpl = WellFormedArchive
    /\ cache = {}
    /\ it = NoIt
    /\ last = Idle
    /\ environ = Unset
    /\ cacheDir = make_cache(NoPath, Unset)

Next ==
    \/ \E n \in ComicArgs : Construct(n)
    \/ Latest
    \/ All
    \/ Pull
    \/ Random
    \/ \E ns \in Batches : LoadBatch(ns)
    \/ FreshCache
    \/ \E entry \in cache : Expire(entry)
    \/ Publish

Spec == Init /\ [][Next]_vars

(***************************************************************************)
(* SpecSearch: the package, over every archive of the record shapes.       *)
(***************************************************************************)
InitSearch ==
    /\ impl = "package"
    /\ remote \in 1..MaxLatest
    /\ tmpl \in [1..MaxLatest -> 1..Len(Pool)]
    /\ cache = {}
    /\ it = NoIt
    /\ last = Idle
    /\ environ = Unset
    /\ cacheDir = make_cache(NoPath, Unset)

NextSearch ==
    \/ \E text \in Texts : Search(text)
    \/ Publish

SpecSearch == InitSearch /\ [][NextSearch]_vars

(***************************************************************************)
(* SpecComic: the package's constructor and accessors, over every archive. *)
(***************************************************************************)
NextComic ==
    \/ \E n \in ComicArgs : Construct(n)
    \/ ReadDate
    \/ ReadFullText
    \/ Publish

SpecComic == InitSearch /\ [][NextComic]_vars

(***************************************************************************)
(* SpecArchive: both modules, on archives large enough to hold comic 404   *)
(* and the offset of older().                                              *)
(***************************************************************************)
ArchiveLatests ==
    (1..MaxLatest)
        \cup {OlderWindow, OlderWindow + 1, 2 * OlderWindow, 2 * OlderWindow + 1}
        \cup {NotFound, NotFound + 1}

InitArchive ==
    /\ impl \in {"package", "legacy"}
    /\ remote \in ArchiveLatests
    /\ tmpl = WellFormedArchive
    /\ cache = {}
    /\ it = NoIt
    /\ last = Idle
    /\ environ = Unset
    /\ cacheDir = make_cache(NoPath, Unset)

NextArchive ==
    \/ Construct(NotFound)
    \/ All
    \/ Older
    \/ Pull

SpecArchive == InitArchive /\ [][NextArchive]_vars

(***************************************************************************)
(* SpecMakeCache: make_cache over its inputs.                              *)
(***************************************************************************)
InitMakeCache ==
    /\ impl \in {"package", "legacy"}
    /\ remote = 1
    /\ tmpl = WellFormedArchive
    /\ cache = {}
    /\ it = NoIt
    /\ last = Idle
    /\ environ \in {Unset} \cup Dirs
    /\ cacheDir = make_cache(NoPath, environ)

NextMakeCache ==
    \/ \E path \in {NoPath, TmpDir} \cup Dirs : MakeCache(path)
    \/ \E value \in {Unset} \cup Dirs : SetEnv(value)

SpecMakeCache == InitMakeCache /\ [][NextMakeCache]_vars

(***************************************************************************)
(* Properties.                                                             *)
(***************************************************************************)
NoRepeat(q) == \A i, j \in 1..Len(q) : q[i] = q[j] => i = j

\* a call that built comics other than 404 and raised nothing
LoadedOk(l) ==
    \/ l.op = "Comic" /\ l.err = "" /\ l.n # NotFound
    \/ l.op = "batch" /\ l.err = "" /\ NotFound \notin Range(l.ns)

\* C1, first load: a load of comics other than 404 that found none of them in
\* the cache reaches the network once for each and leaves each stored.
ColdLoadFetchesAndStores ==
    LoadedOk(last) /\ last.warm = {} =>
        /\ Range(last.net) = Range(last.reqs)
        /\ NoRepeat(last.net)
        /\ \A u \in Range(last.reqs) : Cached(cache, u)

\* C1, second load: the same load made again straight after a successful one
\* reaches the network for nothing and succeeds as well.
RepeatedLoadServedFromCache ==
    /\ LoadedOk(last)
    /\ last'.op = last.op
    /\ last'.n = last.n
    /\ last'.ns = last.ns
    => last'.net = <<>> /\ last'.err = "" /\ last'.cvars = last.cvars

\* C1: Comic(n), n other than 404, built twice in a row from a cold cache: the
\* first contacts the network and stores the response, the second is served
\* from the cache without the network; the same for a batch loaded twice.
C1_SecondLoadFromCache ==
    [](ColdLoadFetchesAndStores) /\ [][RepeatedLoadServedFromCache]_vars

\* a batch of MaxBatch comics loaded with every one of them served from the cache
C1_Witness ==
    /\ last.op = "batch"
    /\ last.err = ""
    /\ Len(last.ns) = MaxBatch
    /\ last.warm = Range(last.ns)
    /\ last.net = <<>>

\* C5: every latest() sends the request for info.0.json to the network, fresh
\* cache entry or not, and returns the Comic of the number the server then
\* answers, so a number published since the previous latest() is seen.
C5_LatestAlwaysFetched ==
    last.op = "latest" =>
        /\ last.err = ""
        /\ last.reqs # <<>> /\ Head(last.reqs) = LatestUrl
        /\ last.net # <<>> /\ Head(last.net) = LatestUrl
        /\ last.built = <<last.seen>>
        /\ number(last.cvars).err = ""
        /\ number(last.cvars).v = IntV(last.seen)

\* latest() called while the cache held a fresh info.0.json of an older number
C5_Witness ==
    /\ last.op = "latest"
    /\ LatestUrl \in last.warm
    /\ last.held # 0
    /\ last.held < last.seen
    /\ number(last.cvars).v = IntV(last.seen)

\* C7 as stated: from the call of all() to the first pull there is no network
\* call and no Comic is built.
C7_NothingBeforeFirstPull ==
    last.op = "all" => last.net = <<>> /\ last.built = <<>>

\* C7 as amended: all() itself makes latest()'s requests and builds the latest
\* Comic, and no element; each pull builds exactly the next element, with its
\* one request.
C7_ElementsBuiltWhenPulled ==
    /\ last.op = "all" /\ last.err = "" =>
        /\ last.net # <<>> /\ Head(last.net) = LatestUrl
        /\ last.built = <<last.seen>>
        /\ last.reqs = <<LatestUrl, last.seen>>
        /\ it.kind = "all" /\ it.next = it.first /\ it.count = 0
    /\ last.op = "pull" =>
        /\ last.n = it.next + 1
        /\ last.built = <<last.n>>
        /\ last.reqs = <<last.n>>

\* the second element of a sequence has been pulled
C7_Witness ==
    /\ last.op = "pull"
    /\ it.kind = "all"
    /\ it.count = 2
    /\ last.n = it.first - 1

(***************************************************************************)
(* Search.                                                                 *)
(***************************************************************************)
\* the Comic the package holds for number k
ComicOf(k) == IF k = NotFound THEN SentinelVars ELSE fix_numbers(RemoteJson(k))

\* every comic of 1..top has the fields full_text reads
ArchiveWellFormed(top) == \A k \in 1..top : full_text(ComicOf(k)).err = ""

\* the numbers in 1..top whose full_text holds text, both lower-cased
Matching(top, text) ==
    {k \in 1..top : Contains(Lower(full_text(ComicOf(k)).s), Lower(text))}

Newest(ks) == CHOOSE k \in ks : \A j \in ks : j <= k

\* C3: over an archive of well-formed records with latest number N, search(text)
\* returns the Comic of the highest number in 1..N whose full_text holds text
\* when both are case-folded, and None exactly when no number in 1..N has one.
C3_SearchReturnsNewestMatch ==
    last.op = "search" /\ ArchiveWellFormed(last.seen) =>
        /\ last.err = ""
        /\ last.found <=> Matching(last.seen, last.text) # {}
        /\ last.found =>
            /\ last.cvars = ComicOf(Newest(Matching(last.seen, last.text)))
            /\ number(last.cvars).v = IntV(Newest(Matching(last.seen, last.text)))

\* a search that returned a comic older than the latest, matched only through
\* case folding, while a still older comic matches too
C3_Witness ==
    /\ last.op = "search"
    /\ ArchiveWellFormed(last.seen)
    /\ last.found
    /\ number(last.cvars).v.i < last.seen
    /\ Cardinality(Matching(last.seen, last.text)) >= 2
    /\ ~Contains(full_text(last.cvars).s, last.text)

\* C4: a search whose first match, newest first, is comic k builds no Comic
\* with a number below k and issues no request for one.
C4_SearchStopsAtFirstMatch ==
    last.op = "search" /\ last.found =>
        /\ \A i \in 1..Len(last.built) : last.built[i] >= number(last.cvars).v.i
        /\ \A i \in 1..Len(last.reqs) :
              last.reqs[i] = LatestUrl \/ last.reqs[i] >= number(last.cvars).v.i

\* a search that passed over a newer comic and stopped above an older one
C4_Witness ==
    /\ last.op = "search"
    /\ last.found
    /\ number(last.cvars).v.i > 1
    /\ number(last.cvars).v.i < last.seen
    /\ Len(last.built) = 2 + (last.seen - number(last.cvars).v.i)

(***************************************************************************)
(* Construction from a record that lacks a key.                            *)
(***************************************************************************)
\* the last call built comic n, not 404, from a 200 answer that lacks a required key
BuiltFromShortRecord ==
    /\ last.op = "Comic"
    /\ last.n # NotFound
    /\ last.n \in 1..last.seen
    /\ \E k \in RequiredKeys : ~HasKey(RemoteJson(last.n), k)

C2_SentinelNeverFetched ==
    last.op = "Comic" /\ last.n = NotFound =>
        /\ last.net = <<>>
        /\ last.err = ""
        /\ last.cvars = SentinelVars
        /\ date(last.cvars) = [err |-> "", y |-> 2008, m |-> 4, d |-> 1]

\* C2 holds of the package
C2_InPackage == impl = "package" => C2_SentinelNeverFetched

\* Comic(404) has been built by the package
C2_PackageWitness == impl = "package" /\ last.op = "Comic" /\ last.n = NotFound

(***************************************************************************)
(* all() and older().                                                      *)
(***************************************************************************)
\* the comics of a map object that are yet to be pulled
Remaining(i) == IF i.next < 1 THEN 0 ELSE i.next

\* C6: all() returns a sequence that yields the Comics of N, N-1, ..., 1, one
\* per pull and in that order, N being the latest number when all() was called:
\* N elements when it is consumed, comic 404 among them, the last one comic 1.
C6_AllYieldsLatestDownToOne ==
    /\ last.op = "all" =>
        /\ last.err = ""
        /\ it.kind = "all" /\ it.first = last.seen /\ it.next = it.first
    /\ it.kind = "all" =>
        /\ it.first = it.seen
        /\ it.count = it.first - it.next
        /\ it.next < 1 => it.count = it.seen
        /\ last.op = "pull" =>
            /\ last.err = ""
            /\ last.n = it.next + 1
            /\ last.built = <<last.n>>

\* C6 holds of the package, and of the legacy module unless the latest is 404
C6_ExceptLegacyAt404 ==
    impl = "package" \/ remote # NotFound => C6_AllYieldsLatestDownToOne

\* a sequence of all() past comic 404 has been consumed
C6_Witness ==
    /\ it.kind = "all"
    /\ it.seen > NotFound
    /\ it.next = 0
    /\ it.count = it.seen
    /\ last.op = "pull" /\ last.n = 1

\* C10 as stated: for a latest number N that leaves room for it, older() yields
\* exactly 100 Comics.
C10_OlderYieldsWindow ==
    it.kind = "older" /\ it.seen >= 2 * OlderWindow /\ it.next < 1
        => it.count = OlderWindow

\* C10 as amended: older() yields the Comics of N - 100, N - 101, ..., 1 in that order:
\* N - 100 of them, none when N <= 100 (and 100 only when N = 200); when the
\* latest number is 404 it raises AttributeError, as latest().number does there.
C10_OlderYieldsAllButNewest ==
    /\ last.op = "older" =>
        IF last.seen = NotFound THEN last.err = "AttributeError"
        ELSE /\ last.err = ""
             /\ it.kind = "older" /\ it.seen = last.seen /\ it.next = it.first
    /\ it.kind = "older" =>
        /\ it.first = it.seen - OlderWindow
        /\ it.count = Remaining([next |-> it.first]) - Remaining(it)
        /\ it.next < 1 => it.count = (IF it.seen > OlderWindow THEN it.seen - OlderWindow ELSE 0)
        /\ last.op = "pull" =>
            /\ last.err = ""
            /\ last.n = it.next + 1

\* a sequence of older() has been consumed and gave one Comic more than 100
C10_Witness ==
    /\ it.kind = "older"
    /\ it.seen = 2 * OlderWindow + 1
    /\ it.next = 0
    /\ it.count = OlderWindow + 1

(***************************************************************************)
(* make_cache.                                                             *)
(***************************************************************************)
\* C9: make_cache uses the path it is given; without one, XKCD_CACHE_DIR when
\* it is set; without either, ~/.cache/xkcd.
C9_ExplicitPathFirst ==
    last.op = "make_cache" =>
        cacheDir = (IF last.path # NoPath THEN last.path
                    ELSE IF environ # Unset THEN environ
                    ELSE DefaultDir)

\* what make_cache does: XKCD_CACHE_DIR when it is set; without it the path
\* given; without either, ~/.cache/xkcd.
C9_EnvironmentFirst ==
    last.op = "make_cache" =>
        cacheDir = (IF environ # Unset THEN environ
                    ELSE IF last.path # NoPath THEN last.path
                    ELSE DefaultDir)

\* make_cache was given a path while XKCD_CACHE_DIR named another directory
C9_Witness ==
    /\ last.op = "make_cache"
    /\ last.path # NoPath
    /\ environ # Unset
    /\ environ # last.path

====
